---- MODULE Spec2Model ----
(***************************************************************************)
(* Model of use-iframe-tracker: the Token Store that runs inside the       *)
(* tracking iframe (HtmlTracker.iframe) and the Bridge Client that runs in *)
(* the embedding page (HtmlTracker.js).                                    *)
(*                                                                         *)
(* Strings that the code splits or truncates (tokens, cookie values) are   *)
(* sequences of one-character strings; '' is <<>> and null/undefined is    *)
(* the distinguished value NULL.                                           *)
(***************************************************************************)
EXTENDS Integers, Sequences, FiniteSets, TLC

(* ------------------------------ bounds --------------------------------- *)
\* number of distinct values crypto.randomUUID() may return
NumUUIDs == 2
\* messages the Token Store may post to its parent in one document lifetime
MaxOutbox == 2
\* initialize() is not invoked again once this many listeners are registered
MaxInitCalls == 2
\* getVisitorToken() calls made by the embedding page
MaxCalls == 2
\* visitor:token-ready events dispatched in the embedding page
MaxFired == 2
\* the script is not run again once this many listeners are registered
MaxRuns == 2
\* number of distinct values Date.now() can return
MaxNow == 1

(* ---------------------------- JS values -------------------------------- *)
NULL == <<"null">>
EMPTY == <<>>
Falsy(v) == v = NULL \/ v = EMPTY
Truthy(v) == ~Falsy(v)
\* a || b
Or2(a, b) == IF Truthy(a) THEN a ELSE b

Digit(i) == <<"0", "1", "2", "3", "4", "5", "6", "7", "8", "9">>[i + 1]
\* the i-th value crypto.randomUUID() can return
UUID(i) == <<"u", Digit(i)>>
UUIDs == {UUID(i) : i \in 1..NumUUIDs}
\* a token chosen by an embedding page that contains a cookie delimiter
SemiToken == <<"a", ";", "b">>

\* outcome of evaluating a JS expression: a value, or an exception
Ok(v) == [thrown |-> FALSE, val |-> v]
Throw == [thrown |-> TRUE, val |-> NULL]

safeExecute(r) == IF r.thrown THEN NULL ELSE r.val

(* ------------------------- configuration ------------------------------- *)
storageKey == "visitor_token"
cookieName == "visitor_token"
OtherCookie == [name |-> "other", value |-> <<"x">>]
\* new URL(this.iframeUrl).origin, and some other origin
IframeOrigin == "https://example.com"
EvilOrigin == "https://evil.example"

(* ------------------------------ state ---------------------------------- *)
VARIABLES
    localStorage,   \* Token Store origin: localStorage[storageKey], NULL when absent
    cookieJar,      \* Token Store origin: cookies, a sequence of [name, value]
    memoryToken,    \* Token Store: let memoryToken
    isInitialized,  \* Token Store: let isInitialized
    listeners,      \* Token Store: number of registered 'message' listeners
    timers,         \* Token Store: number of running setInterval timers
    outbox,         \* Token Store: messages posted to window.parent
    storeUncaught,  \* Token Store: an exception escaped a callback
    lsMode,         \* environment: "ok", "writeThrows" (quota), "throws" (disabled)
    cookieMode,     \* environment: "ok", "throws", "blocked" (writes dropped, reads empty)
    cryptoOk,       \* environment: crypto.randomUUID is available
    trackerInitialized, \* Bridge Client: window._sessionTrackerInitialized
    iframe,         \* Bridge Client: this.iframe: "none", "null", "attached", "detached"
    bridgeListeners,\* Bridge Client: number of registered 'message' listeners
    cached,         \* Bridge Client: window[javascriptKey], NULL when undefined
    waiters,        \* Bridge Client: tokenReadyCallbacks, the ids of pending calls
    resolved,       \* Bridge Client: the value each getToken() promise resolved with
    calls,          \* Bridge Client: getVisitorToken() calls made so far
    posted,         \* Bridge Client: GET_TOKEN messages posted to the iframe
    fired,          \* Bridge Client: number of visitor:token-ready events dispatched
    firedDetail,    \* Bridge Client: detail of the last visitor:token-ready event
    parentStorage,  \* embedding page: localStorage[storageKey]
    parentJar,      \* embedding page: cookies
    pcAsync,        \* Bridge Client: position of the constructor's async sequence
    navigated,      \* embedding page: the URL assigned to window.location.href
    getVisitorTokenDefined, \* embedding page: window.getVisitorToken is set
    bridgeUncaught, \* embedding page: the 'error' and 'unhandledrejection' events raised
    syncWithParent, \* configuration
    domOk,          \* environment: document.createElement / appendChild work
    parentLsMode,   \* environment: the embedding page's localStorage: "ok", "throws"
    parentCookieMode, \* environment: the embedding page's cookies: "ok", "throws"
    delivered,      \* iframe window: posted GET_TOKEN messages dispatched so far
    sameSite,       \* HtmlTracker: this.sameSite
    secure,         \* HtmlTracker: this.secure
    domain,         \* HtmlTracker: this.domain
    storeCookieOptions,  \* cookie options in the script returned by iframe(), <<>> before
    storeRemoveOptions,  \* options of the removal cookie in that script, <<>> if none
    bridgeCookieOptions, \* cookie options in the script returned by js(), <<>> before
    writtenCookie,  \* the string last assigned to document.cookie by a setCookie
    tabs,           \* Token Store documents of one origin: position, token, memoryToken
    wiped,          \* a RESET_TOKEN emptied the shared storage, no SET_TOKEN or start since
    last            \* the operation performed by the last step

storeVars == <<localStorage, cookieJar, memoryToken, isInitialized, listeners,
               timers, outbox, storeUncaught>>
envVars == <<lsMode, cookieMode, cryptoOk>>
bridgeVars == <<trackerInitialized, iframe, bridgeListeners, cached, waiters,
                resolved, calls, posted, fired, firedDetail, parentStorage, parentJar,
                pcAsync, navigated, getVisitorTokenDefined, bridgeUncaught>>
pageVars == <<syncWithParent, domOk, parentLsMode, parentCookieMode>>
chanVars == <<delivered>>
cfgVars == <<sameSite, secure, domain, storeCookieOptions, storeRemoveOptions,
             bridgeCookieOptions,
             writtenCookie>>
tabVars == <<tabs, wiped>>
vars == <<storeVars, envVars, bridgeVars, pageVars, chanVars, cfgVars, tabVars, last>>

\* the Token Store's holders and its posted messages as one value; set is the
\* argument of the setToken call made by the operation, NULL when it made none
Cur == [ls |-> localStorage, jar |-> cookieJar, mem |-> memoryToken, out |-> outbox,
        set |-> NULL]

(* ---------------------- HtmlTracker (the server) ---------------------- *)
\* years added to the current date for the expires attribute
ExpiryYears == 10

\* the values a caller can pass for sameSite, secure and domain
RawConfigs ==
    [sameSite : {"undefined", "Strict", "Lax", "None"},
     secure : {"undefined", "true", "false"},
     domain : {"undefined", "", "example.com"}]

\* the fields the constructor derives from a configuration
constructor(config) ==
    [sameSite |-> IF config.sameSite = "undefined" THEN "None" ELSE config.sameSite,
     secure |-> config.secure # "false",
     domain |-> IF config.domain = "undefined" THEN "" ELSE config.domain]

\* one attribute of a cookie string, written name=value, or name alone when
\* value is ""
Attr(name, value) == [name |-> name, value |-> value]

\* an entry of the options array that is false or ''
Dropped == Attr("", "")

\* [...].filter(Boolean): the entries that are not false or ''
FilterBoolean(opts) == SelectSeq(opts, LAMBDA o : o.name # "")

\* no options string yet, and no cookie written yet
NoOptions == <<>>
NoCookie == [name |-> "", value |-> EMPTY, options |-> NoOptions]

\* expirationDate.toUTCString() of a date ExpiryYears after now
ExpiresAttr == Attr("expires", [after |-> "now", years |-> ExpiryYears])

\* a getCookieOptions that forces the flag for every sameSite
getCookieOptions_forceAlways(ss, sec, dom) ==
    [secure |-> TRUE,
     options |-> FilterBoolean(
         <<Attr("path", "/"),
           IF dom # "" THEN Attr("domain", dom) ELSE Dropped,
           Attr("secure", ""),
           Attr("samesite", ss),
           ExpiresAttr>>)]

\* a getCookieOptions that composes the string from the flag as configured
getCookieOptions_noForce(ss, sec, dom) ==
    [secure |-> sec,
     options |-> FilterBoolean(
         <<Attr("path", "/"),
           IF dom # "" THEN Attr("domain", dom) ELSE Dropped,
           IF sec THEN Attr("secure", "") ELSE Dropped,
           Attr("samesite", ss),
           ExpiresAttr>>)]

\* getCookieOptions: the value of this.secure after the call, and the
\* attributes of the returned string in order (joined with '; ')
getCookieOptions(ss, sec, dom) ==
    LET sec1 == IF ss = "None" /\ ~sec THEN TRUE ELSE sec
    IN  [secure |-> sec1,
         options |-> FilterBoolean(
             <<Attr("path", "/"),
               IF dom # "" THEN Attr("domain", dom) ELSE Dropped,
               IF sec1 THEN Attr("secure", "") ELSE Dropped,
               Attr("samesite", ss),
               ExpiresAttr>>)]

\* the fixed date of the removal cookie
EpochAttr == Attr("expires", [after |-> "epoch", years |-> 0])

\* getRemoveCookieOptions of the variant: it reads this.secure as it is
getRemoveCookieOptions(ss, sec, dom) ==
    FilterBoolean(
        <<Attr("path", "/"),
          IF dom # "" THEN Attr("domain", dom) ELSE Dropped,
          IF sec THEN Attr("secure", "") ELSE Dropped,
          Attr("samesite", ss),
          EpochAttr>>)

\* name + '=' + value + '; ' + options, as the pair and the attributes
CookieString(name, value, options) ==
    [name |-> name, value |-> value, options |-> options]

\* the tracker every page and iframe of the other specifications is served
\* by: new HtmlTracker({iframeUrl}) with the defaults
DefaultTracker ==
    /\ sameSite = "None"
    /\ secure = TRUE
    /\ domain = ""
    /\ storeCookieOptions = getCookieOptions("None", TRUE, "").options
    /\ storeRemoveOptions = NoOptions
    /\ bridgeCookieOptions = getCookieOptions("None", TRUE, "").options
    /\ writtenCookie = NoCookie

(* ------------- Token Store documents sharing one origin ---------------- *)
\* two documents of the Token Store origin, in two tabs or two pages
Tabs == {"A", "B"}

\* a document whose script has not started: pc is the statement it is at,
\* token the local variable of initialize or the argument of setToken, mem
\* its memoryToken, init its isInitialized, fresh whether it has read
\* localStorage since localStorage was last cleared
NewTab == [pc |-> "new", token |-> <<"null">>, mem |-> <<>>, init |-> FALSE,
           fresh |-> TRUE]
FreshTabs == [t \in Tabs |-> NewTab]

\* where a single document is described by the Token Store variables instead
NoTabs == <<>>

(* --------------------------- browser APIs ------------------------------ *)
\* text of s before the first ';' (the user agent ends a cookie value there)
RECURSIVE BeforeSemicolon(_)
BeforeSemicolon(s) ==
    IF s = <<>> \/ Head(s) = ";" THEN <<>>
    ELSE <<Head(s)>> \o BeforeSemicolon(Tail(s))

\* localStorage.getItem(storageKey)
lsGetItem(s) == IF lsMode = "throws" THEN Throw ELSE Ok(s.ls)

\* localStorage.setItem(storageKey, v) succeeds
lsCanWrite == lsMode = "ok"

\* document.cookie = name + '=' + value + '; <options>' on a jar
jarAssign(jar, name, value) ==
    LET v == BeforeSemicolon(value)
        hit == {i \in 1..Len(jar) : jar[i].name = name}
    IN  IF hit = {} THEN Append(jar, [name |-> name, value |-> v])
        ELSE [i \in 1..Len(jar) |->
                 IF i \in hit THEN [name |-> name, value |-> v] ELSE jar[i]]

\* the cookies document.cookie shows to the script
jarVisible(jar) == IF cookieMode = "blocked" THEN <<>> ELSE jar

\* ('; ' + document.cookie).split('; ' + name + '='), each part cut at its
\* first ';': the part before the first match starts with ';', and every
\* later part starts with the value of a cookie called name
CookieParts(jar, name) ==
    LET sel == SelectSeq(jar, LAMBDA e : e.name = name)
    IN  <<EMPTY>> \o [i \in 1..Len(sel) |-> sel[i].value]

(* --------------------------- Token Store ------------------------------- *)
\* a parse that takes the first part of the split instead of the last
getCookie_shift(jar, name) ==
    safeExecute(
        IF cookieMode = "throws" THEN Throw
        ELSE LET parts == CookieParts(jarVisible(jar), name)
             IN  IF Len(parts) = 2 THEN Ok(parts[1]) ELSE Ok(NULL))

getCookie(jar, name) ==
    safeExecute(
        IF cookieMode = "throws" THEN Throw
        ELSE LET parts == CookieParts(jarVisible(jar), name)
             IN  IF Len(parts) = 2 THEN Ok(parts[Len(parts)]) ELSE Ok(NULL))

\* safeExecute(() => { document.cookie = name + '=' + value + '; <options>' })
\* where the cookies of the context are in the given mode
cookieWrite(mode, jar, name, value) ==
    IF mode = "ok" THEN jarAssign(jar, name, value) ELSE jar

setCookie(jar, name, value) == cookieWrite(cookieMode, jar, name, value)

\* a getToken that prefers the in-memory holder
getToken_memoryFirst(s) ==
    safeExecute(
        LET a == lsGetItem(s)
        IN  IF a.thrown THEN Throw
            ELSE Ok(Or2(Or2(s.mem, a.val), getCookie(s.jar, cookieName))))

getToken(s) ==
    safeExecute(
        LET a == lsGetItem(s)
        IN  IF a.thrown THEN Throw
            ELSE Ok(Or2(Or2(a.val, getCookie(s.jar, cookieName)), s.mem)))

\* a setToken without the test of its argument
setToken_noFalsyTest(s, token) ==
    IF ~lsCanWrite THEN [s EXCEPT !.set = token]
    ELSE [s EXCEPT !.ls = token,
                   !.jar = setCookie(s.jar, cookieName, token),
                   !.mem = token,
                   !.set = token]

\* a setToken that forgets the localStorage write
setToken_noStorage(s, token) ==
    IF Falsy(token) THEN s
    ELSE [s EXCEPT !.jar = setCookie(s.jar, cookieName, token),
                   !.mem = token,
                   !.set = token]

setToken(s, token) ==
    IF Falsy(token) THEN s
    ELSE IF ~lsCanWrite THEN [s EXCEPT !.set = token]
    ELSE [s EXCEPT !.ls = token,
                   !.jar = setCookie(s.jar, cookieName, token),
                   !.mem = token,
                   !.set = token]

\* a generateToken that falls back to another generator
generateToken_fallback == UUIDs

\* the values generateToken() can return
generateToken == IF cryptoOk THEN UUIDs ELSE {NULL}

\* the values Date.now() can return
Times == 1..MaxNow

\* the message notifyParent posts, with the window and the target origin it
\* is posted to
TokenReady(token, now) ==
    [type |-> "TOKEN_READY", token |-> token, timestamp |-> now,
     source |-> "session-tracker", to |-> "parentWindow", target |-> "*"]

\* a notifyParent that posts whatever getToken() returned
notifyParent_always(s, token, now) ==
    [s EXCEPT !.out = Append(s.out, TokenReady(token, now))]

\* window.parent is the embedding page; nothing is posted for a falsy token
notifyParent(s, token, now) ==
    IF Truthy(token) THEN [s EXCEPT !.out = Append(s.out, TokenReady(token, now))]
    ELSE s

\* handleMessage of the current source: only GET_TOKEN is recognised
handleMessage(s, data, now) ==
    IF data.type = "" THEN s
    ELSE IF data.type = "GET_TOKEN" THEN notifyParent(s, getToken(s), now)
    ELSE s

\* document.cookie = name + '=; <options>; expires=<epoch>' (no safeExecute)
removeCookie(jar, name) ==
    IF cookieMode = "throws" THEN Throw
    ELSE IF cookieMode = "blocked" THEN Ok(jar)
    ELSE Ok(SelectSeq(jar, LAMBDA e : e.name # name))

resetToken(s) ==
    IF lsMode = "throws" THEN s
    ELSE LET s1 == [s EXCEPT !.ls = NULL]
             r == removeCookie(s1.jar, cookieName)
         IN  IF r.thrown THEN s1
             ELSE [s1 EXCEPT !.jar = r.val, !.mem = EMPTY]

\* a handleMessage whose switch answers every other type like GET_TOKEN
handleMessageExt_defaultCase(s, data, now) ==
    IF data.type = "" THEN s
    ELSE IF data.type = "RESET_TOKEN" THEN resetToken(s)
    ELSE IF data.type = "SET_TOKEN" THEN setToken(s, data.token)
    ELSE notifyParent(s, getToken(s), now)

\* handleMessage of the variant with reset/set requests
handleMessageExt(s, data, now) ==
    IF data.type = "" THEN s
    ELSE IF data.type = "GET_TOKEN" THEN notifyParent(s, getToken(s), now)
    ELSE IF data.type = "RESET_TOKEN" THEN resetToken(s)
    ELSE IF data.type = "SET_TOKEN" THEN setToken(s, data.token)
    ELSE s

\* a callback that also acts when only the cookie is missing
tick_cookieToo(s) ==
    LET stored == lsGetItem(s)
    IN  IF stored.thrown THEN Throw
        ELSE IF (Falsy(stored.val) \/ Falsy(getCookie(s.jar, cookieName))) /\ Truthy(s.mem)
             THEN Ok(setToken(s, s.mem))
        ELSE Ok(s)

\* a callback whose test of the stored token is inverted
tick_inverted(s) ==
    LET stored == lsGetItem(s)
    IN  IF stored.thrown THEN Throw
        ELSE IF Truthy(stored.val) /\ Truthy(s.mem) THEN Ok(setToken(s, s.mem))
        ELSE Ok(s)

\* the setInterval callback; getItem is called outside safeExecute
tick(s) ==
    LET stored == lsGetItem(s)
    IN  IF stored.thrown THEN Throw
        ELSE IF Falsy(stored.val) /\ Truthy(s.mem) THEN Ok(setToken(s, s.mem))
        ELSE Ok(s)

\* an initialize() that never generates a token
initialize_noGenerate(s, g) ==
    IF isInitialized THEN [s |-> s, reg |-> 0, gen |-> FALSE]
    ELSE [s |-> setToken(s, getToken(s)), reg |-> 1, gen |-> FALSE]

\* an initialize() that prefers a fresh token to the persisted one
initialize_alwaysGenerate(s, g) ==
    IF isInitialized THEN [s |-> s, reg |-> 0, gen |-> FALSE]
    ELSE [s |-> setToken(s, Or2(g, getToken(s))), reg |-> 1, gen |-> TRUE]

\* an initialize() without the one-shot guard
initialize_noGuard(s, g) ==
    LET cur == getToken(s)
    IN  [s |-> setToken(s, Or2(cur, g)), reg |-> 1, gen |-> Falsy(cur)]

\* an initialize that announces the token to the parent
initialize_announces(s, g) ==
    IF isInitialized THEN [s |-> s, reg |-> 0, gen |-> FALSE]
    ELSE LET cur == getToken(s)
             s1 == setToken(s, Or2(cur, g))
         IN  [s |-> notifyParent(s1, getToken(s1), 1), reg |-> 1, gen |-> Falsy(cur)]

\* initialize() when generateToken() would return g
initialize(s, g) ==
    IF isInitialized THEN [s |-> s, reg |-> 0, gen |-> FALSE]
    ELSE LET cur == getToken(s)
         IN  [s |-> setToken(s, Or2(cur, g)), reg |-> 1, gen |-> Falsy(cur)]

(* ------------------------------ inputs --------------------------------- *)
MsgTypes == {"GET_TOKEN", "RESET_TOKEN", "SET_TOKEN", "OTHER", ""}
SetTokens == UUIDs \cup {SemiToken, EMPTY, NULL}
StoreMsgs ==
    {[type |-> t, token |-> NULL] : t \in MsgTypes}
    \cup {[type |-> "SET_TOKEN", token |-> k] : k \in SetTokens}

OurCookie(t) == [name |-> cookieName, value |-> t]
InitJars ==
    {<<>>, <<OtherCookie>>}
    \cup {<<OurCookie(t)>> : t \in UUIDs}
    \cup {<<OtherCookie, OurCookie(t)>> : t \in UUIDs}
    \cup {<<OurCookie(t), OtherCookie>> : t \in UUIDs}

\* the record of a step: the operation, its input, whether it called
\* generateToken(), and the argument of its setToken call
Did(op, arg, gen, set) == [op |-> op, arg |-> arg, gen |-> gen, set |-> set]

(* ------------------------------ actions -------------------------------- *)
NoNav == [url |-> "", key |-> NULL]
Payload(type, source, token) == [type |-> type, source |-> source, token |-> token]
NoPayload == Payload("", "", NULL)

\* the embedding page before the Bridge Client script has run
PageFresh ==
    /\ trackerInitialized = FALSE
    /\ iframe = "none"
    /\ bridgeListeners = 0
    /\ cached = NULL
    /\ waiters = {}
    /\ resolved = [i \in 0..MaxCalls |-> NULL]
    /\ calls = 0
    /\ posted = 0
    /\ fired = 0
    /\ firedDetail = NoPayload
    /\ parentStorage = NULL
    /\ parentJar = <<>>
    /\ pcAsync = "idle"
    /\ navigated = NoNav
    /\ getVisitorTokenDefined = FALSE
    /\ bridgeUncaught = {}

\* a fresh iframe document, before its script has run
InitStore ==
    /\ PageFresh
    /\ syncWithParent = FALSE
    /\ domOk = TRUE
    /\ parentLsMode = "ok"
    /\ parentCookieMode = "ok"
    /\ localStorage \in UUIDs \cup {NULL}
    /\ cookieJar \in InitJars
    /\ memoryToken = EMPTY
    /\ isInitialized = FALSE
    /\ listeners = 0
    /\ timers = 0
    /\ outbox = <<>>
    /\ storeUncaught = FALSE
    /\ lsMode \in {"ok", "writeThrows", "throws"}
    /\ cookieMode \in {"ok", "throws", "blocked"}
    /\ cryptoOk \in BOOLEAN
    /\ delivered = 0
    /\ DefaultTracker
    /\ tabs = NoTabs
    /\ wiped = FALSE
    /\ last = Did("none", NULL, FALSE, NULL)

SetStore(s) ==
    /\ localStorage' = s.ls
    /\ cookieJar' = s.jar
    /\ memoryToken' = s.mem
    /\ outbox' = s.out

Initialize ==
    /\ listeners < MaxInitCalls
    /\ \E g \in generateToken :
          LET r == initialize(Cur, g)
          IN  /\ SetStore(r.s)
              /\ listeners' = listeners + r.reg
              /\ timers' = timers + r.reg
              /\ last' = Did("initialize", NULL, r.gen, r.s.set)
    /\ isInitialized' = TRUE
    /\ UNCHANGED <<storeUncaught, envVars, bridgeVars, pageVars, chanVars, cfgVars, tabVars>>

Tick ==
    /\ timers > 0
    /\ LET r == tick(Cur)
       IN  /\ SetStore(IF r.thrown THEN Cur ELSE r.val)
           /\ storeUncaught' = (storeUncaught \/ r.thrown)
           /\ last' = Did("tick", NULL, FALSE, IF r.thrown THEN NULL ELSE r.val.set)
    /\ UNCHANGED <<isInitialized, listeners, timers, envVars, bridgeVars, pageVars, chanVars, cfgVars, tabVars>>

\* Date.now() is read by notifyParent only, which only GET_TOKEN reaches
NowFor(data) == IF data.type = "GET_TOKEN" THEN Times ELSE {1}

HandleMessage ==
    /\ listeners > 0
    /\ Len(outbox) < MaxOutbox
    /\ \E data \in StoreMsgs : \E now \in NowFor(data) :
          \E r \in {handleMessage(Cur, data, now)} :
              /\ SetStore(r)
              /\ last' = Did("message", data, FALSE, r.set)
    /\ UNCHANGED <<isInitialized, listeners, timers, storeUncaught, envVars, bridgeVars, pageVars, chanVars, cfgVars, tabVars>>

HandleMessageExt ==
    /\ listeners > 0
    /\ Len(outbox) < MaxOutbox
    /\ \E data \in StoreMsgs : \E now \in NowFor(data) :
          \E r \in {handleMessageExt(Cur, data, now)} :
              /\ SetStore(r)
              /\ last' = Did("message", data, FALSE, r.set)
    /\ UNCHANGED <<isInitialized, listeners, timers, storeUncaught, envVars, bridgeVars, pageVars, chanVars, cfgVars, tabVars>>

\* the user agent evicts or the user clears the storage entry
ClearLocalStorage ==
    /\ Truthy(localStorage)
    /\ localStorage' = NULL
    /\ last' = Did("clearStorage", NULL, FALSE, NULL)
    /\ UNCHANGED <<cookieJar, memoryToken, isInitialized, listeners, timers,
                   outbox, storeUncaught, envVars, bridgeVars, pageVars, chanVars, cfgVars, tabVars>>

\* the cookie expires or is deleted
ClearCookie ==
    /\ \E i \in 1..Len(cookieJar) : cookieJar[i].name = cookieName
    /\ cookieJar' = SelectSeq(cookieJar, LAMBDA e : e.name # cookieName)
    /\ last' = Did("clearCookie", NULL, FALSE, NULL)
    /\ UNCHANGED <<localStorage, memoryToken, isInitialized, listeners, timers,
                   outbox, storeUncaught, envVars, bridgeVars, pageVars, chanVars, cfgVars, tabVars>>

\* the iframe document is loaded again: script state is lost, storage is kept
Reload ==
    /\ isInitialized
    /\ memoryToken' = EMPTY
    /\ isInitialized' = FALSE
    /\ listeners' = 0
    /\ timers' = 0
    /\ outbox' = <<>>
    /\ storeUncaught' = FALSE
    /\ last' = Did("reload", NULL, FALSE, NULL)
    /\ UNCHANGED <<localStorage, cookieJar, envVars, bridgeVars, pageVars, chanVars, cfgVars, tabVars>>

StoreEnv == ClearLocalStorage \/ ClearCookie \/ Reload

NextStore == Initialize \/ Tick \/ HandleMessage \/ StoreEnv
SpecStore == InitStore /\ [][NextStore]_vars
\* setInterval keeps firing for as long as the document lives
SpecStoreFair == SpecStore /\ WF_vars(Tick)

NextStoreExt == Initialize \/ Tick \/ HandleMessageExt \/ StoreEnv
SpecStoreExt == InitStore /\ [][NextStoreExt]_vars

(* -------------- Token Store of the variant and its senders ------------- *)
\* the embedding page's origin, and the message events the iframe document
\* can receive: from its parent or another window, of either origin
PageOrigin == "https://page.example"
StoreEvents ==
    {[origin |-> o, source |-> w, data |-> d] :
        o \in {PageOrigin, EvilOrigin}, w \in {"parentWindow", "otherWindow"},
        d \in StoreMsgs}

\* a listener that acts on messages of the parent window only
storeListener_parentOnly(s, ev, now) ==
    IF ev.source # "parentWindow" THEN s ELSE handleMessageExt(s, ev.data, now)

\* the listener initialize() registers: it reads event.data only
storeListener(s, ev, now) == handleMessageExt(s, ev.data, now)

\* a message event is delivered to the iframe document
HandleEvent ==
    /\ listeners > 0
    /\ Len(outbox) < MaxOutbox
    /\ \E ev \in StoreEvents : \E now \in NowFor(ev.data) :
          \E r \in {storeListener(Cur, ev, now)} :
              /\ SetStore(r)
              /\ last' = Did("event", ev, FALSE, r.set)
    /\ UNCHANGED <<isInitialized, listeners, timers, storeUncaught, envVars, bridgeVars, pageVars, chanVars, cfgVars, tabVars>>

\* the iframe document of a first visit: nothing stored yet, storage and
\* cookie in any of their modes
InitStoreOpen ==
    /\ InitStore
    /\ localStorage = NULL
    /\ cookieJar = <<>>
    /\ cryptoOk

NextStoreOpen == Initialize \/ Tick \/ HandleEvent
SpecStoreOpen == InitStoreOpen /\ [][NextStoreOpen]_vars

(* --------------------------- Bridge Client ----------------------------- *)
\* the Bridge Client's mutable state as one value
CurB == [cached |-> cached, waiters |-> waiters, resolved |-> resolved,
         posted |-> posted, fired |-> fired, detail |-> firedDetail,
         pls |-> parentStorage, pjar |-> parentJar]

\* this.iframe.contentWindow
contentWindow == IF iframe = "attached" THEN "iframeWindow" ELSE "null"

\* JS values of different types, for ===
JsBool(b) == [kind |-> "boolean", v |-> IF b THEN "true" ELSE "false"]
JsStr(str) == [kind |-> "string", v |-> str]
StrictEq(a, b) == a.kind = b.kind /\ a.v = b.v
\* !x for a string field x, "" standing for a missing field
JsNot(x) == JsBool(x = "")

\* a getToken() that asks the iframe even when a token is cached
trackerGetToken_alwaysAsk(b, id) ==
    LET b1 == [b EXCEPT !.waiters = @ \cup {id}]
    IN  IF iframe = "attached" THEN [b1 EXCEPT !.posted = @ + 1] ELSE b1

\* SessionTracker.getToken() for the promise with the given id
trackerGetToken(b, id) ==
    IF Truthy(b.cached) THEN [b EXCEPT !.resolved[id] = b.cached]
    ELSE LET b1 == [b EXCEPT !.waiters = @ \cup {id}]
         IN  IF iframe = "attached" THEN [b1 EXCEPT !.posted = @ + 1] ELSE b1

\* a handleTokenReady that leaves the page's own storage alone
handleTokenReady_noSync(b, data) ==
    [b EXCEPT !.cached = data.token,
              !.fired = @ + 1,
              !.detail = data,
              !.resolved = [i \in DOMAIN @ |->
                               IF i \in b.waiters THEN data.token ELSE @[i]],
              !.waiters = {}]

\* handleTokenReady: one safeExecute around all of its statements, so a throw
\* of localStorage.setItem skips the cookie, the event and the waiters
handleTokenReady(b, data) ==
    LET b1 == [b EXCEPT !.cached = data.token]
        b2 == IF syncWithParent
              THEN [b1 EXCEPT !.pls = data.token,
                              !.pjar = cookieWrite(parentCookieMode, b1.pjar,
                                                   cookieName, data.token)]
              ELSE b1
    IN  IF syncWithParent /\ parentLsMode = "throws" THEN b1
        ELSE [b2 EXCEPT !.fired = @ + 1,
                        !.detail = data,
                        !.resolved = [i \in DOMAIN @ |->
                                         IF i \in b2.waiters THEN data.token ELSE @[i]],
                        !.waiters = {}]

\* a listener that accepts a message without a token
rejects_noTokenTest(ev) ==
    \/ contentWindow = "null"
    \/ ev.origin # IframeOrigin
    \/ ev.source # contentWindow
    \/ StrictEq(JsNot(ev.data.type), JsStr("TOKEN_READY"))
    \/ StrictEq(JsNot(ev.data.source), JsStr("session-tracker"))

\* a listener that forgets to compare the origin
rejects_noOrigin(ev) ==
    \/ contentWindow = "null"
    \/ ev.source # contentWindow
    \/ Falsy(ev.data.token)

\* the condition under which the message listener returns early
rejects(ev) ==
    \/ contentWindow = "null"
    \/ ev.origin # IframeOrigin
    \/ ev.source # contentWindow
    \/ StrictEq(JsNot(ev.data.type), JsStr("TOKEN_READY"))
    \/ StrictEq(JsNot(ev.data.source), JsStr("session-tracker"))
    \/ Falsy(ev.data.token)

\* the listener registered by setupSecureMessageListener
onMessage(b, ev) ==
    IF iframe = "null" THEN Throw
    ELSE IF rejects(ev) THEN Ok(b)
    ELSE Ok(handleTokenReady(b, ev.data))

\* the value of the redirect parameter in window.location.search: absent,
\* empty, a URL that new URL() accepts, a string that it rejects
RedirectParams == {"absent", "empty", "https://dest.example/path", "not a url"}

\* a navigation that reads the token from the page's localStorage
redirectStep_fromStorage(redirect) ==
    IF redirect \in {"absent", "empty"} THEN Ok(NoNav)
    ELSE IF redirect = "not a url" THEN Throw
    ELSE Ok([url |-> redirect, key |-> parentStorage])

\* a navigation that does not test the redirect parameter
redirectStep_noTest(redirect) ==
    IF redirect = "not a url" THEN Throw
    ELSE Ok([url |-> redirect, key |-> cached])

\* the part of the constructor's async sequence that follows the first token
redirectStep(redirect) ==
    IF redirect \in {"absent", "empty"} THEN Ok(NoNav)
    ELSE IF redirect = "not a url" THEN Throw
    ELSE Ok([url |-> redirect, key |-> cached])

\* message payloads: well formed, without a token, with another type, and
\* without a source field
Payloads ==
    {Payload("TOKEN_READY", "session-tracker", t) : t \in UUIDs \cup {EMPTY}}
    \cup {Payload("OTHER", "session-tracker", UUID(1)),
          Payload("TOKEN_READY", "", UUID(1))}
BridgeEvents ==
    {[origin |-> o, source |-> w, data |-> d] :
        o \in {IframeOrigin, EvilOrigin}, w \in {"iframeWindow", "otherWindow"},
        d \in Payloads}

SetBridge(b) ==
    /\ cached' = b.cached
    /\ waiters' = b.waiters
    /\ resolved' = b.resolved
    /\ posted' = b.posted
    /\ fired' = b.fired
    /\ firedDetail' = b.detail
    /\ parentStorage' = b.pls
    /\ parentJar' = b.pjar

\* the embedding page and an idle Token Store
InitBridge ==
    /\ PageFresh
    /\ syncWithParent \in BOOLEAN
    /\ domOk \in BOOLEAN
    /\ parentLsMode \in {"ok", "throws"}
    /\ parentCookieMode \in {"ok", "throws"}
    /\ (~syncWithParent => parentLsMode = "ok" /\ parentCookieMode = "ok")
    /\ localStorage = NULL
    /\ cookieJar = <<>>
    /\ memoryToken = EMPTY
    /\ isInitialized = FALSE
    /\ listeners = 0
    /\ timers = 0
    /\ outbox = <<>>
    /\ storeUncaught = FALSE
    /\ lsMode = "ok"
    /\ cookieMode = "ok"
    /\ cryptoOk = TRUE
    /\ delivered = 0
    /\ DefaultTracker
    /\ tabs = NoTabs
    /\ wiped = FALSE
    /\ last = Did("none", NULL, FALSE, NULL)

\* a script whose first statement is not the test of the initialized flag
RunScript_noGuard ==
    /\ bridgeListeners < MaxRuns
    /\ last' = Did("runScript", NULL, FALSE, NULL)
    /\ waiters' = {}
    /\ iframe' = IF domOk THEN "attached" ELSE "null"
    /\ bridgeListeners' = bridgeListeners + 1
    /\ trackerInitialized' = TRUE
    /\ pcAsync' = IF domOk THEN "waitLoad" ELSE "failed"
    /\ bridgeUncaught' = bridgeUncaught \cup (IF domOk THEN {} ELSE {"unhandledrejection"})
    /\ getVisitorTokenDefined' = TRUE
    /\ UNCHANGED <<cached, resolved, calls, posted, fired, firedDetail, parentStorage,
                   parentJar, navigated>>
    /\ UNCHANGED <<storeVars, envVars, pageVars, chanVars, cfgVars, tabVars>>

\* the generated script runs in the page
RunScript ==
    /\ bridgeListeners < MaxRuns
    /\ last' = Did("runScript", NULL, FALSE, NULL)
    /\ IF trackerInitialized
       THEN UNCHANGED <<trackerInitialized, iframe, bridgeListeners, cached, waiters,
                        resolved, calls, posted, fired, firedDetail, parentStorage, parentJar,
                        pcAsync, navigated, getVisitorTokenDefined, bridgeUncaught>>
       ELSE /\ waiters' = {}
            /\ iframe' = IF domOk THEN "attached" ELSE "null"
            /\ bridgeListeners' = bridgeListeners + 1
            /\ trackerInitialized' = TRUE
            /\ pcAsync' = IF domOk THEN "waitLoad" ELSE "failed"
            /\ bridgeUncaught' = bridgeUncaught \cup (IF domOk THEN {} ELSE {"unhandledrejection"})
            /\ getVisitorTokenDefined' = TRUE
            /\ UNCHANGED <<cached, resolved, calls, posted, fired, firedDetail, parentStorage,
                           parentJar, navigated>>
    /\ UNCHANGED <<storeVars, envVars, pageVars, chanVars, cfgVars, tabVars>>

\* the page calls window.getVisitorToken()
GetVisitorToken ==
    /\ getVisitorTokenDefined
    /\ calls < MaxCalls
    /\ calls' = calls + 1
    /\ SetBridge(trackerGetToken(CurB, calls + 1))
    /\ last' = Did("getVisitorToken", NULL, FALSE, NULL)
    /\ UNCHANGED <<trackerInitialized, iframe, bridgeListeners, pcAsync, navigated,
                   getVisitorTokenDefined, bridgeUncaught>>
    /\ UNCHANGED <<storeVars, envVars, pageVars, chanVars, cfgVars, tabVars>>

\* the iframe's load event: the async sequence issues the first getToken()
IframeLoad ==
    /\ pcAsync = "waitLoad"
    /\ iframe = "attached"
    /\ pcAsync' = "waitToken"
    /\ SetBridge(trackerGetToken(CurB, 0))
    /\ last' = Did("iframeLoad", NULL, FALSE, NULL)
    /\ UNCHANGED <<trackerInitialized, iframe, bridgeListeners, calls, navigated,
                   getVisitorTokenDefined, bridgeUncaught>>
    /\ UNCHANGED <<storeVars, envVars, pageVars, chanVars, cfgVars, tabVars>>

\* the async sequence resumes after its getToken() promise has resolved
AsyncResume ==
    /\ pcAsync = "waitToken"
    /\ resolved[0] # NULL
    /\ pcAsync' = "done"
    /\ \E redirect \in RedirectParams :
          LET r == redirectStep(redirect)
          IN  /\ navigated' = IF r.thrown THEN navigated ELSE r.val
              /\ bridgeUncaught' = bridgeUncaught \cup (IF r.thrown THEN {"unhandledrejection"} ELSE {})
              /\ last' = Did("asyncResume", redirect, FALSE, NULL)
    /\ UNCHANGED <<trackerInitialized, iframe, bridgeListeners, cached, waiters,
                   resolved, calls, posted, fired, firedDetail, parentStorage, parentJar,
                   getVisitorTokenDefined>>
    /\ UNCHANGED <<storeVars, envVars, pageVars, chanVars, cfgVars, tabVars>>

\* the promise of the async sequence's getToken() has resolved and its
\* continuation is queued as a microtask, which runs before the next task
ResumeQueued == pcAsync = "waitToken" /\ resolved[0] # NULL

\* a message event is delivered to the page
OnMessage ==
    /\ bridgeListeners > 0
    /\ fired < MaxFired
    /\ ~ResumeQueued
    /\ \E ev \in BridgeEvents :
          \E r \in {onMessage(CurB, ev)} :
              /\ SetBridge(IF r.thrown THEN CurB ELSE r.val)
              /\ bridgeUncaught' = bridgeUncaught \cup (IF r.thrown THEN {"error"} ELSE {})
              /\ last' = Did("onMessage", ev, FALSE, NULL)
    /\ UNCHANGED <<trackerInitialized, iframe, bridgeListeners, calls, pcAsync,
                   navigated, getVisitorTokenDefined>>
    /\ UNCHANGED <<storeVars, envVars, pageVars, chanVars, cfgVars, tabVars>>

\* a script of the page removes the iframe element from the document
DetachIframe ==
    /\ iframe = "attached"
    /\ iframe' = "detached"
    /\ last' = Did("detachIframe", NULL, FALSE, NULL)
    /\ UNCHANGED <<trackerInitialized, bridgeListeners, cached, waiters, resolved,
                   calls, posted, fired, firedDetail, parentStorage, parentJar, pcAsync, navigated,
                   getVisitorTokenDefined, bridgeUncaught>>
    /\ UNCHANGED <<storeVars, envVars, pageVars, chanVars, cfgVars, tabVars>>

NextBridge ==
    RunScript \/ GetVisitorToken \/ IframeLoad \/ AsyncResume \/ OnMessage
    \/ DetachIframe
SpecBridge == InitBridge /\ [][NextBridge]_vars

(* ---------- Bridge Client of the variant with reset/set helpers -------- *)
\* a message posted to the iframe's window, and no message
IframeMsg(type, token) == [type |-> type, token |-> token]
NoPost == IframeMsg("", NULL)

\* iframe.contentWindow.postMessage(msg, '*') inside safeExecute: without a
\* content window the property access throws and nothing is posted
postToIframe(msg) == IF iframe = "attached" THEN msg ELSE NoPost

\* the tokens a page passes to the setToken helper
HelperTokens == UUIDs \cup {EMPTY}

BridgeFrame ==
    /\ UNCHANGED <<trackerInitialized, iframe, bridgeListeners, waiters, resolved,
                   calls, posted, fired, firedDetail, parentStorage, parentJar, pcAsync,
                   navigated, getVisitorTokenDefined, bridgeUncaught>>
    /\ UNCHANGED <<storeVars, envVars, pageVars, chanVars, cfgVars, tabVars>>

\* a resetToken helper that also forgets the cached token
HelperResetToken_clearsCache ==
    /\ fired > 0
    /\ last' = Did("helperResetToken", postToIframe(IframeMsg("RESET_TOKEN", NULL)),
                   FALSE, NULL)
    /\ cached' = NULL
    /\ BridgeFrame

\* the page calls the resetToken helper that onInit handed to it
HelperResetToken ==
    /\ fired > 0
    /\ last' = Did("helperResetToken", postToIframe(IframeMsg("RESET_TOKEN", NULL)),
                   FALSE, NULL)
    /\ UNCHANGED cached
    /\ BridgeFrame

\* the page calls the setToken helper that onInit handed to it
HelperSetToken ==
    /\ fired > 0
    /\ \E t \in HelperTokens :
          last' = Did("helperSetToken", postToIframe(IframeMsg("SET_TOKEN", t)),
                      FALSE, NULL)
    /\ UNCHANGED cached
    /\ BridgeFrame

NextBridgeExt == NextBridge \/ HelperResetToken \/ HelperSetToken
\* the page of InitBridge, with a cookie jar that accepts the page's cookies
InitBridgeExt == InitBridge /\ parentCookieMode = "ok"
SpecBridgeExt == InitBridgeExt /\ [][NextBridgeExt]_vars

(* ------ Bridge Client in a page that listens to visitor:token-ready ----- *)
\* what the page's listener of visitor:token-ready observes when it calls
\* getVisitorToken(): whether it ran, the token its promise resolved with, the
\* waiters pending while it ran, the GET_TOKEN messages its call posted
Seen(ran, token, pending, asked) ==
    [ran |-> ran, token |-> token, pending |-> pending, asked |-> asked]
NotRun == Seen(FALSE, NULL, {}, 0)

\* a handleTokenReady that dispatches the event before it writes the token
handleTokenReadyListening_eventFirst(b, data, id) ==
    IF syncWithParent /\ parentLsMode = "throws"
    THEN LET b1 == [b EXCEPT !.fired = @ + 1, !.detail = data]
             b2 == trackerGetToken(b1, id)
         IN  [b |-> [b2 EXCEPT !.cached = data.token],
              seen |-> Seen(TRUE, b2.resolved[id], b1.waiters, b2.posted - b1.posted)]
    ELSE LET b1 == [b EXCEPT !.fired = @ + 1, !.detail = data]
             b2 == trackerGetToken(b1, id)
             b3 == [b2 EXCEPT !.cached = data.token]
             b4 == IF syncWithParent
                   THEN [b3 EXCEPT !.pls = data.token,
                                   !.pjar = cookieWrite(parentCookieMode, b3.pjar,
                                                        cookieName, data.token)]
                   ELSE b3
         IN  [b |-> [b4 EXCEPT !.resolved = [i \in DOMAIN @ |->
                                               IF i \in b4.waiters THEN data.token ELSE @[i]],
                               !.waiters = {}],
              seen |-> Seen(TRUE, b2.resolved[id], b1.waiters, b2.posted - b1.posted)]

\* handleTokenReady statement by statement, with the page's listener calling
\* getToken() for the promise id inside dispatchEvent
handleTokenReadyListening(b, data, id) ==
    LET b1 == [b EXCEPT !.cached = data.token]
    IN  IF syncWithParent /\ parentLsMode = "throws" THEN [b |-> b1, seen |-> NotRun]
        ELSE LET b2 == IF syncWithParent
                       THEN [b1 EXCEPT !.pls = data.token,
                                       !.pjar = cookieWrite(parentCookieMode, b1.pjar,
                                                            cookieName, data.token)]
                       ELSE b1
                 b3 == [b2 EXCEPT !.fired = @ + 1, !.detail = data]
                 b4 == trackerGetToken(b3, id)
             IN  [b |-> [b4 EXCEPT !.resolved = [i \in DOMAIN @ |->
                                                   IF i \in b4.waiters THEN data.token
                                                   ELSE @[i]],
                                   !.waiters = {}],
                  seen |-> Seen(TRUE, b4.resolved[id], b3.waiters, b4.posted - b3.posted)]

\* the listener registered by setupSecureMessageListener, in such a page
onMessageListening(b, ev, id) ==
    IF iframe = "null" THEN Throw
    ELSE IF rejects(ev) THEN Ok([b |-> b, seen |-> NotRun])
    ELSE Ok(handleTokenReadyListening(b, ev.data, id))

\* a message event is delivered to a page whose visitor:token-ready listener
\* calls window.getVisitorToken()
OnMessageListening ==
    /\ bridgeListeners > 0
    /\ fired < MaxFired
    /\ calls < MaxCalls
    /\ ~ResumeQueued
    /\ \E ev \in BridgeEvents :
          \E r \in {onMessageListening(CurB, ev, calls + 1)} :
              /\ SetBridge(IF r.thrown THEN CurB ELSE r.val.b)
              /\ calls' = IF ~r.thrown /\ r.val.seen.ran THEN calls + 1 ELSE calls
              /\ bridgeUncaught' = bridgeUncaught \cup (IF r.thrown THEN {"error"} ELSE {})
              /\ last' = Did("onMessageListening", ev, FALSE,
                             IF r.thrown THEN NotRun ELSE r.val.seen)
    /\ UNCHANGED <<trackerInitialized, iframe, bridgeListeners, pcAsync,
                   navigated, getVisitorTokenDefined>>
    /\ UNCHANGED <<storeVars, envVars, pageVars, chanVars, cfgVars, tabVars>>

NextBridgeListening ==
    RunScript \/ GetVisitorToken \/ IframeLoad \/ AsyncResume \/ OnMessageListening
    \/ DetachIframe
SpecBridgeListening == InitBridgeExt /\ [][NextBridgeListening]_vars

(* ------------- the page and its Token Store iframe together ------------- *)
\* the page with a working DOM, and an iframe document whose localStorage,
\* cookie and crypto work; the page's own localStorage may throw
InitEndToEnd ==
    /\ PageFresh
    /\ syncWithParent \in BOOLEAN
    /\ domOk = TRUE
    /\ parentLsMode \in {"ok", "throws"}
    /\ parentCookieMode = "ok"
    /\ (~syncWithParent => parentLsMode = "ok")
    /\ localStorage \in UUIDs \cup {NULL}
    /\ cookieJar = <<>>
    /\ memoryToken = EMPTY
    /\ isInitialized = FALSE
    /\ listeners = 0
    /\ timers = 0
    /\ outbox = <<>>
    /\ storeUncaught = FALSE
    /\ lsMode = "ok"
    /\ cookieMode = "ok"
    /\ cryptoOk = TRUE
    /\ delivered = 0
    /\ DefaultTracker
    /\ tabs = NoTabs
    /\ wiped = FALSE
    /\ last = Did("none", NULL, FALSE, NULL)

\* the document served for iframe.src runs its script in the created iframe
IframeScript == iframe = "attached" /\ Initialize

\* the load event of the iframe fires once its document has run its script
IframeLoaded == isInitialized /\ IframeLoad

\* the message posted by SessionTracker.getToken()
GetTokenMsg == [type |-> "GET_TOKEN", token |-> NULL]

\* a posted GET_TOKEN is dispatched in the iframe's window: to handleMessage,
\* or to nobody when the document has not registered its listener yet
DeliverGetToken ==
    /\ delivered < posted
    /\ delivered' = delivered + 1
    /\ IF listeners > 0
       THEN \E now \in Times :
               /\ SetStore(handleMessage(Cur, GetTokenMsg, now))
               /\ last' = Did("message", GetTokenMsg, FALSE, NULL)
       ELSE /\ UNCHANGED <<localStorage, cookieJar, memoryToken, outbox>>
            /\ last' = Did("messageLost", GetTokenMsg, FALSE, NULL)
    /\ UNCHANGED <<isInitialized, listeners, timers, storeUncaught, envVars, bridgeVars,
                   pageVars, cfgVars, tabVars>>

\* the message event the page receives for a message m posted by the iframe
EventOf(m) ==
    [origin |-> IframeOrigin, source |-> "iframeWindow",
     data |-> [type |-> m.type, token |-> m.token, timestamp |-> m.timestamp,
               source |-> m.source]]

\* s without its i-th element
RemoveAt(s, i) == SubSeq(s, 1, i - 1) \o SubSeq(s, i + 1, Len(s))

\* a message posted by the iframe is dispatched in the page, as a task
DeliverTokenReady ==
    /\ bridgeListeners > 0
    /\ ~ResumeQueued
    /\ \E i \in 1..Len(outbox) :
          LET ev == EventOf(outbox[i])
              r == onMessage(CurB, ev)
          IN  /\ SetBridge(IF r.thrown THEN CurB ELSE r.val)
              /\ bridgeUncaught' = bridgeUncaught \cup (IF r.thrown THEN {"error"} ELSE {})
              /\ outbox' = RemoveAt(outbox, i)
              /\ last' = Did("onMessage", ev, FALSE, NULL)
    /\ UNCHANGED <<trackerInitialized, iframe, bridgeListeners, calls, pcAsync,
                   navigated, getVisitorTokenDefined>>
    /\ UNCHANGED <<localStorage, cookieJar, memoryToken, isInitialized, listeners,
                   timers, storeUncaught, envVars, pageVars, chanVars, cfgVars, tabVars>>

NextEndToEnd ==
    RunScript \/ GetVisitorToken \/ IframeScript \/ IframeLoaded
    \/ DeliverGetToken \/ DeliverTokenReady \/ AsyncResume \/ Tick
    \/ ClearLocalStorage
\* the iframe document loads, every posted message is eventually dispatched,
\* and a queued continuation runs
SpecEndToEnd ==
    /\ InitEndToEnd
    /\ [][NextEndToEnd]_vars
    /\ WF_vars(IframeScript)
    /\ WF_vars(IframeLoaded)
    /\ WF_vars(DeliverGetToken)
    /\ WF_vars(DeliverTokenReady)
    /\ WF_vars(AsyncResume)

(* ------------------- two Token Stores, statement by statement ---------- *)
\* two fresh documents over shared storage; localStorage may be full and the
\* cookie may be blocked for the embedded document
InitTabs ==
    /\ PageFresh
    /\ DefaultTracker
    /\ tabs = FreshTabs
    /\ wiped = FALSE
    /\ syncWithParent = FALSE
    /\ domOk = TRUE
    /\ parentLsMode = "ok"
    /\ parentCookieMode = "ok"
    /\ localStorage \in {NULL, UUID(1)}
    /\ cookieJar = <<>>
    /\ memoryToken = EMPTY
    /\ isInitialized = FALSE
    /\ listeners = 0
    /\ timers = 0
    /\ outbox = <<>>
    /\ storeUncaught = FALSE
    /\ lsMode \in {"ok", "writeThrows"}
    /\ cookieMode \in {"ok", "blocked"}
    /\ cryptoOk = TRUE
    /\ delivered = 0
    /\ last = Did("none", NULL, FALSE, NULL)

TabUnchanged ==
    UNCHANGED <<memoryToken, isInitialized, listeners, timers, outbox, storeUncaught,
                envVars, bridgeVars, pageVars, chanVars, cfgVars>>

\* getToken() as document t would evaluate it now
TabGetToken(t) == getToken([Cur EXCEPT !.mem = tabs[t].mem])

\* initialize(): localStorage.getItem of getToken()
TabReadStorage(t) ==
    /\ tabs[t].pc = "new"
    /\ tabs' = [tabs EXCEPT ![t].pc = IF Truthy(localStorage) THEN "setItem" ELSE "getCookie",
                            ![t].token = localStorage]
    /\ last' = Did("tabReadStorage", t, FALSE, NULL)
    /\ UNCHANGED <<localStorage, cookieJar>>
    /\ UNCHANGED wiped
    /\ TabUnchanged

\* initialize(): getCookie of getToken(), then memoryToken, then
\* generateToken() when all three are empty
TabReadCookie(t) ==
    /\ tabs[t].pc = "getCookie"
    /\ \E g \in generateToken :
          LET found == Or2(getCookie(cookieJar, cookieName), tabs[t].mem)
          IN  /\ tabs' = [tabs EXCEPT ![t].pc = "setItem", ![t].token = Or2(found, g)]
              /\ last' = Did("tabReadCookie", t, Falsy(found), NULL)
    /\ UNCHANGED <<localStorage, cookieJar>>
    /\ UNCHANGED wiped
    /\ TabUnchanged

\* setToken(token): the test of the argument and localStorage.setItem,
\* whose exception ends the safeExecute around setToken
TabSetItem(t) ==
    /\ tabs[t].pc = "setItem"
    /\ IF Falsy(tabs[t].token) \/ ~lsCanWrite
       THEN /\ tabs' = [tabs EXCEPT ![t].pc = "idle", ![t].init = TRUE]
            /\ UNCHANGED localStorage
       ELSE /\ tabs' = [tabs EXCEPT ![t].pc = "setCookie"]
            /\ localStorage' = tabs[t].token
    /\ wiped' = (wiped /\ (tabs[t].init \/ Falsy(tabs[t].token) \/ ~lsCanWrite))
    /\ last' = Did("tabSetItem", t, FALSE, tabs[t].token)
    /\ UNCHANGED cookieJar
    /\ TabUnchanged

\* setToken(token): setCookie and the assignment of memoryToken; in
\* initialize() the timer and the flag follow
TabSetCookie(t) ==
    /\ tabs[t].pc = "setCookie"
    /\ cookieJar' = setCookie(cookieJar, cookieName, tabs[t].token)
    /\ tabs' = [tabs EXCEPT ![t].pc = "idle", ![t].mem = tabs[t].token, ![t].init = TRUE]
    /\ last' = Did("tabSetCookie", t, FALSE, tabs[t].token)
    /\ UNCHANGED localStorage
    /\ UNCHANGED wiped
    /\ TabUnchanged

\* the timer callback of document t: it reads localStorage and calls
\* setToken(memoryToken) when the entry is gone
TabTick(t) ==
    /\ tabs[t].pc = "idle"
    /\ tabs[t].init
    /\ tabs' = [tabs EXCEPT
                   ![t].pc = IF Falsy(localStorage) /\ Truthy(tabs[t].mem)
                             THEN "setItem" ELSE "idle",
                   ![t].token = tabs[t].mem,
                   ![t].fresh = TRUE]
    /\ last' = Did("tabTick", t, FALSE, NULL)
    /\ UNCHANGED <<localStorage, cookieJar>>
    /\ UNCHANGED wiped
    /\ TabUnchanged

\* the shared localStorage entry is cleared from outside
TabClearStorage ==
    /\ Truthy(localStorage)
    /\ localStorage' = NULL
    /\ tabs' = [t \in Tabs |-> [tabs[t] EXCEPT !.fresh = FALSE]]
    /\ last' = Did("clearStorage", NULL, FALSE, NULL)
    /\ UNCHANGED cookieJar
    /\ UNCHANGED wiped
    /\ TabUnchanged

NextTabs ==
    \/ \E t \in Tabs : TabReadStorage(t) \/ TabReadCookie(t) \/ TabSetItem(t)
                        \/ TabSetCookie(t) \/ TabTick(t)
    \/ TabClearStorage
SpecTabs == InitTabs /\ [][NextTabs]_vars

(* ------------- two Token Stores of the variant with RESET_TOKEN -------- *)
\* the Token Store state document t works on
TabCur(t) == [Cur EXCEPT !.mem = tabs[t].mem]

\* document t handles RESET_TOKEN: resetToken() in one step
TabReset(t) ==
    /\ tabs[t].init
    /\ tabs[t].pc = "idle"
    /\ LET r == resetToken(TabCur(t))
       IN  /\ localStorage' = r.ls
           /\ cookieJar' = r.jar
           /\ tabs' = [u \in Tabs |->
                         IF u = t THEN [tabs[u] EXCEPT !.mem = r.mem, !.fresh = FALSE]
                         ELSE [tabs[u] EXCEPT !.fresh = FALSE]]
    /\ wiped' = TRUE
    /\ last' = Did("tabReset", t, FALSE, NULL)
    /\ TabUnchanged

\* document t handles SET_TOKEN with a token: setToken(token) in one step
TabSetToken(t) ==
    /\ tabs[t].init
    /\ tabs[t].pc = "idle"
    /\ \E token \in UUIDs :
          LET r == setToken(TabCur(t), token)
          IN  /\ localStorage' = r.ls
              /\ cookieJar' = r.jar
              /\ tabs' = [tabs EXCEPT ![t].mem = r.mem]
              /\ last' = Did("tabSetToken", t, FALSE, token)
    /\ wiped' = (wiped /\ ~lsCanWrite)
    /\ TabUnchanged

NextTabsExt ==
    \/ NextTabs
    \/ \E t \in Tabs : TabReset(t) \/ TabSetToken(t)
SpecTabsExt == InitTabs /\ [][NextTabsExt]_vars

(* ------------------- the server generating the scripts ----------------- *)
\* a tracker just constructed from some configuration
InitTracker ==
    /\ PageFresh
    /\ \E config \in RawConfigs :
          /\ sameSite = constructor(config).sameSite
          /\ secure = constructor(config).secure
          /\ domain = constructor(config).domain
    /\ storeCookieOptions = NoOptions
    /\ storeRemoveOptions = NoOptions
    /\ bridgeCookieOptions = NoOptions
    /\ writtenCookie = NoCookie
    /\ tabs = NoTabs
    /\ wiped = FALSE
    /\ syncWithParent = TRUE
    /\ domOk = TRUE
    /\ parentLsMode = "ok"
    /\ parentCookieMode = "ok"
    /\ localStorage = NULL
    /\ cookieJar = <<>>
    /\ memoryToken = EMPTY
    /\ isInitialized = FALSE
    /\ listeners = 0
    /\ timers = 0
    /\ outbox = <<>>
    /\ storeUncaught = FALSE
    /\ lsMode = "ok"
    /\ cookieMode = "ok"
    /\ cryptoOk = TRUE
    /\ delivered = 0
    /\ last = Did("none", NULL, FALSE, NULL)

\* iframe(): the Token Store document is generated
Iframe ==
    /\ LET r == getCookieOptions(sameSite, secure, domain)
       IN  /\ secure' = r.secure
           /\ storeCookieOptions' = r.options
    /\ last' = Did("iframe", secure, FALSE, NULL)
    /\ UNCHANGED <<sameSite, domain, storeRemoveOptions, bridgeCookieOptions, writtenCookie>>
    /\ UNCHANGED <<storeVars, envVars, bridgeVars, pageVars, chanVars, tabVars>>

\* js(): the Bridge Client script is generated
Js ==
    /\ LET r == getCookieOptions(sameSite, secure, domain)
       IN  /\ secure' = r.secure
           /\ bridgeCookieOptions' = r.options
    /\ last' = Did("js", secure, FALSE, NULL)
    /\ UNCHANGED <<sameSite, domain, storeCookieOptions, storeRemoveOptions, writtenCookie>>
    /\ UNCHANGED <<storeVars, envVars, bridgeVars, pageVars, chanVars, tabVars>>

\* setCookie of a generated Token Store script assigns document.cookie
StoreSetCookie ==
    /\ storeCookieOptions # NoOptions
    /\ \E value \in UUIDs :
          writtenCookie' = CookieString(cookieName, value, storeCookieOptions)
    /\ last' = Did("setCookie", "store", FALSE, NULL)
    /\ UNCHANGED <<sameSite, secure, domain, storeCookieOptions, storeRemoveOptions,
                   bridgeCookieOptions>>
    /\ UNCHANGED <<storeVars, envVars, bridgeVars, pageVars, chanVars, tabVars>>

\* setCookie of a generated Bridge Client script assigns document.cookie
BridgeSetCookie ==
    /\ bridgeCookieOptions # NoOptions
    /\ \E value \in UUIDs :
          writtenCookie' = CookieString(cookieName, value, bridgeCookieOptions)
    /\ last' = Did("setCookie", "bridge", FALSE, NULL)
    /\ UNCHANGED <<sameSite, secure, domain, storeCookieOptions, storeRemoveOptions,
                   bridgeCookieOptions>>
    /\ UNCHANGED <<storeVars, envVars, bridgeVars, pageVars, chanVars, tabVars>>

NextTracker == Iframe \/ Js \/ StoreSetCookie \/ BridgeSetCookie
SpecTracker == InitTracker /\ [][NextTracker]_vars

(* ------------- the server of the variant that removes cookies ---------- *)
\* iframe() of the variant: the template interpolates the options of
\* removeCookie before those of setCookie
IframeExt ==
    /\ LET rem == getRemoveCookieOptions(sameSite, secure, domain)
           r == getCookieOptions(sameSite, secure, domain)
       IN  /\ storeRemoveOptions' = rem
           /\ secure' = r.secure
           /\ storeCookieOptions' = r.options
    /\ last' = Did("iframe", secure, FALSE, NULL)
    /\ UNCHANGED <<sameSite, domain, bridgeCookieOptions, writtenCookie>>
    /\ UNCHANGED <<storeVars, envVars, bridgeVars, pageVars, chanVars, tabVars>>

\* removeCookie of a generated Token Store script assigns document.cookie
StoreRemoveCookie ==
    /\ storeRemoveOptions # NoOptions
    /\ writtenCookie' = CookieString(cookieName, EMPTY, storeRemoveOptions)
    /\ last' = Did("removeCookie", "store", FALSE, NULL)
    /\ UNCHANGED <<sameSite, secure, domain, storeCookieOptions, storeRemoveOptions,
                   bridgeCookieOptions>>
    /\ UNCHANGED <<storeVars, envVars, bridgeVars, pageVars, chanVars, tabVars>>

NextTrackerExt ==
    IframeExt \/ Js \/ StoreSetCookie \/ BridgeSetCookie \/ StoreRemoveCookie
SpecTrackerExt == InitTracker /\ [][NextTrackerExt]_vars

(* ------------------------------ claims --------------------------------- *)
\* the message of the last step came from another origin or another window
Foreign(ev) == ev.origin # IframeOrigin \/ ev.source # contentWindow

\* C1: a message whose origin is not the Token Store origin, or whose source
\* is not the managed iframe's content window, is never accepted: the cached
\* token, the pending waiters, the resolved promises and the dispatched
\* visitor:token-ready events are all unchanged, whatever the payload.
C1_ForeignMessageNeverAccepted ==
    [][(last'.op = "onMessage" /\ Foreign(last'.arg))
        => (cached' = cached /\ waiters' = waiters /\ resolved' = resolved
            /\ fired' = fired /\ firedDetail' = firedDetail
            /\ parentStorage' = parentStorage /\ parentJar' = parentJar)]_vars

\* a well-formed TOKEN_READY from a foreign origin or window was delivered
\* while a call was pending, and nothing was cached or resolved
C1_Witness ==
    /\ last.op = "onMessage"
    /\ Foreign(last.arg)
    /\ last.arg.data = Payload("TOKEN_READY", "session-tracker", UUID(1))
    /\ waiters # {}
    /\ cached = NULL
    /\ fired = 0

\* C2: a message from the managed iframe at the right origin that carries a
\* token but a type other than 'TOKEN_READY' or a source field other than
\* 'session-tracker' is not accepted into the cached-token state.
C2_PayloadShapeChecked ==
    [][(last'.op = "onMessage"
        /\ (last'.arg.data.type # "TOKEN_READY"
            \/ last'.arg.data.source # "session-tracker"))
        => cached' = cached]_vars

\* the value of the token cookie in the jar, NULL when there is none
CookieHolder ==
    IF \E i \in 1..Len(cookieJar) : cookieJar[i].name = cookieName
    THEN cookieJar[CHOOSE i \in 1..Len(cookieJar) : cookieJar[i].name = cookieName].value
    ELSE NULL

AllWorking == lsMode = "ok" /\ cookieMode = "ok" /\ cryptoOk

\* C3: with working storage, cookie and random generator, once initialize()
\* has completed, getToken() returns a non-empty string.
C3_TokenAfterInitialize ==
    (isInitialized /\ AllWorking) => Truthy(getToken(Cur))

\* initialize() has just run on empty holders, generated a token, and
\* getToken() returns it
C3_Witness ==
    /\ last.op = "initialize"
    /\ last.gen
    /\ AllWorking
    /\ isInitialized
    /\ getToken(Cur) \in UUIDs
    /\ getToken(Cur) = last.set

PartialFailure ==
    \/ lsMode # "ok" /\ cookieMode = "ok"
    \/ lsMode = "ok" /\ cookieMode # "ok"

\* C4: when local storage fails while the cookie and the memory holder work,
\* or the cookie fails while local storage works, initialize() completes and
\* afterwards getToken() returns a non-empty token.
C4_TokenUnderPartialFailure ==
    (isInitialized /\ cryptoOk /\ PartialFailure) => Truthy(getToken(Cur))

\* the first non-empty value among the holders that can be read
FirstReadable ==
    Or2(Or2(IF lsMode = "throws" THEN NULL ELSE localStorage,
            IF cookieMode = "ok" THEN CookieHolder ELSE NULL),
        memoryToken)

\* C5: a failing read step degrades to the next holder: getToken() returns
\* the first non-empty value among the readable holders, and a falsy value
\* only when there is none.
C5_ReadDegrades ==
    IF Truthy(FirstReadable) THEN getToken(Cur) = FirstReadable
    ELSE Falsy(getToken(Cur))

\* C6: after setToken(T) with a non-empty T the three holders all hold T; no
\* execution leaves some holders updated to T and the others not.
C6_SetTokenAllOrNothing ==
    [][Truthy(last'.set)
        => \/ /\ localStorage' = last'.set
              /\ CookieHolder' = last'.set
              /\ memoryToken' = last'.set
           \/ UNCHANGED <<localStorage, cookieJar, memoryToken>>]_vars

ReadsWork == lsMode # "throws" /\ cookieMode = "ok"

\* C7: getToken() returns the local-storage value if it is non-empty,
\* otherwise the cookie value if it is non-empty, otherwise the in-memory
\* value, for every combination of holder contents.
C7_ReadPrecedence ==
    ReadsWork =>
        getToken(Cur) = IF Truthy(localStorage) THEN localStorage
                        ELSE IF Truthy(CookieHolder) THEN CookieHolder
                        ELSE memoryToken

\* local storage is empty, the cookie and the memory hold different tokens,
\* and getToken() returns the cookie's
C7_Witness ==
    /\ ReadsWork
    /\ Falsy(localStorage)
    /\ Truthy(CookieHolder)
    /\ Truthy(memoryToken)
    /\ memoryToken # CookieHolder
    /\ getToken(Cur) = CookieHolder

\* C8: setToken(T) with a non-empty T, immediately followed by getToken(),
\* returns T, whatever the holders held before (local storage working).
C8_SetThenGet ==
    [][(Truthy(last'.set) /\ lsMode = "ok") => getToken(Cur)' = last'.set]_vars

\* a SET_TOKEN request has stored a token that the cookie cannot hold
\* unchanged, and getToken() returns the token
C8_Witness ==
    /\ last.op = "message"
    /\ last.arg.type = "SET_TOKEN"
    /\ last.set = SemiToken
    /\ CookieHolder # SemiToken
    /\ getToken(Cur) = SemiToken

\* C9: if local storage or the cookie holds a non-empty token T when
\* initialize() runs (storage and cookie working), no token is generated and
\* afterwards local storage, the cookie and the memory all hold T.
C9_StableAcrossReload ==
    [][(/\ last'.op = "initialize"
        /\ ~isInitialized
        /\ lsMode = "ok"
        /\ cookieMode = "ok"
        /\ Truthy(Or2(localStorage, CookieHolder)))
        => /\ ~last'.gen
           /\ localStorage' = Or2(localStorage, CookieHolder)
           /\ CookieHolder' = Or2(localStorage, CookieHolder)
           /\ memoryToken' = Or2(localStorage, CookieHolder)]_vars

\* initialize() has run without generating a token and the three holders
\* hold the same persisted token
C9_Witness ==
    /\ last.op = "initialize"
    /\ ~last.gen
    /\ Truthy(last.set)
    /\ lsMode = "ok"
    /\ cookieMode = "ok"
    /\ localStorage = last.set
    /\ CookieHolder = last.set
    /\ memoryToken = last.set

\* C10: when the local storage entry has been cleared and the memory still
\* holds T, the next reconciliation tick writes T back into local storage,
\* and such a tick eventually happens while the document lives.
C10_TickRestores ==
    /\ [][(/\ last'.op = "tick"
           /\ lsMode = "ok"
           /\ Falsy(localStorage)
           /\ Truthy(memoryToken))
           => localStorage' = memoryToken]_vars
    /\ (lsMode = "ok" /\ Falsy(localStorage) /\ Truthy(memoryToken))
         ~> (Truthy(localStorage) \/ ~isInitialized)

\* local storage was cleared and a tick has just written the memory token back
C10_Witness ==
    /\ last.op = "tick"
    /\ Truthy(last.set)
    /\ localStorage = last.set
    /\ memoryToken = last.set

\* C11: initialize() is idempotent: however often it is called in one
\* document, one message listener and one timer are registered, and every
\* call after the first changes nothing in the Token Store.
C11_InitializeIdempotent ==
    /\ [](listeners <= 1 /\ timers <= 1 /\ (isInitialized => listeners = 1 /\ timers = 1))
    /\ [][(last'.op = "initialize" /\ isInitialized)
           => (UNCHANGED storeVars /\ ~last'.gen /\ last'.set = NULL)]_vars

\* initialize() has been called again in a document that already holds a
\* token: no setToken call was made and one listener and one timer exist
C11_Witness ==
    /\ last.op = "initialize"
    /\ last.set = NULL
    /\ Truthy(memoryToken)
    /\ Falsy(localStorage)
    /\ listeners = 1
    /\ timers = 1

\* the step appended exactly one TOKEN_READY to the messages posted to
\* window.parent: the token getToken() returned, source 'session-tracker',
\* a timestamp, target origin '*'
PostedOneTokenReady ==
    /\ Len(outbox') = Len(outbox) + 1
    /\ SubSeq(outbox', 1, Len(outbox)) = outbox
    /\ LET m == outbox'[Len(outbox')]
       IN  /\ m.type = "TOKEN_READY"
           /\ m.token = getToken(Cur)
           /\ m.source = "session-tracker"
           /\ m.timestamp \in Times
           /\ m.target = "*"

GetTokenHandled ==
    /\ last'.op = "message"
    /\ last'.arg.type = "GET_TOKEN"
    /\ isInitialized

AcceptedStep == last'.op = "onMessage" /\ ~rejects(last'.arg)

\* every waiter pending before the step is resolved with t and none is left
WaitersSettled(t) ==
    /\ \A i \in waiters : resolved'[i] = t
    /\ waiters' = {}

\* C14: when the Bridge Client accepts a TOKEN_READY carrying T, every waiter
\* pending at that moment is resolved with T and no waiter is left pending;
\* and a promise is only ever resolved with the token of an accepted
\* TOKEN_READY: the one of this step, or the cached one, which itself is only
\* ever set from an accepted TOKEN_READY.
C14_WaitersResolvedWithAcceptedToken ==
    /\ [][(AcceptedStep /\ last'.arg.data.type = "TOKEN_READY")
           => WaitersSettled(last'.arg.data.token)]_vars
    /\ [][\A i \in DOMAIN resolved :
             resolved'[i] # resolved[i]
             => \/ /\ AcceptedStep
                   /\ last'.arg.data.type = "TOKEN_READY"
                   /\ resolved'[i] = last'.arg.data.token
                \/ /\ ~AcceptedStep
                   /\ resolved'[i] = cached]_vars
    /\ [][cached' # cached
           => /\ AcceptedStep
              /\ last'.arg.data.type = "TOKEN_READY"
              /\ cached' = last'.arg.data.token]_vars

\* C15: with parent-sync enabled and the page's localStorage.setItem
\* throwing, an accepted TOKEN_READY is still handled in full: the token is
\* cached, visitor:token-ready is dispatched with the payload, and every
\* pending waiter is resolved and cleared.
C15_ParentStorageFailureRecovered ==
    [][(AcceptedStep /\ syncWithParent /\ parentLsMode = "throws")
        => /\ cached' = last'.arg.data.token
           /\ fired' = fired + 1
           /\ firedDetail' = last'.arg.data
           /\ WaitersSettled(last'.arg.data.token)]_vars

\* the value of the page's cookie called cookieName, NULL when there is none
ParentCookieHolder(jar) ==
    IF \E i \in 1..Len(jar) : jar[i].name = cookieName
    THEN jar[CHOOSE i \in 1..Len(jar) : jar[i].name = cookieName].value
    ELSE NULL

ParentStorageWorks == parentLsMode = "ok" /\ parentCookieMode = "ok"

\* C16: with parent-sync enabled and the page's localStorage and cookie
\* writable, after an accepted TOKEN_READY carrying T has been handled the
\* page's localStorage entry and its cookie both hold T.
C16_ParentHoldersSynced ==
    [][(AcceptedStep /\ syncWithParent /\ ParentStorageWorks)
        => /\ parentStorage' = last'.arg.data.token
           /\ ParentCookieHolder(parentJar') = last'.arg.data.token]_vars

\* a second token has been accepted with parent-sync on, and both of the
\* page's holders have moved to it
C16_Witness ==
    /\ last.op = "onMessage"
    /\ syncWithParent
    /\ ParentStorageWorks
    /\ fired = 2
    /\ cached = last.arg.data.token
    /\ parentStorage = cached
    /\ ParentCookieHolder(parentJar) = cached
    /\ firedDetail.token = cached

\* the step was a SessionTracker.getToken() call: one made by the page
\* through getVisitorToken(), or the one of the constructor's async sequence
GetTokenStep == last'.op \in {"getVisitorToken", "iframeLoad"}
CallId == IF last'.op = "iframeLoad" THEN 0 ELSE calls'

\* the call resolved at once with the cached token and asked for nothing
ResolvedFromCache ==
    /\ resolved'[CallId] = cached
    /\ waiters' = waiters
    /\ posted' = posted

\* the call added itself, and nothing else, to the pending waiters
OneWaiterAdded ==
    /\ CallId \notin waiters
    /\ waiters' = waiters \cup {CallId}
    /\ resolved'[CallId] = NULL

\* C17 as stated: a getToken() call made while a token is cached resolves
\* at once with it, adds no waiter and posts no GET_TOKEN; a call made while
\* nothing is cached adds exactly one waiter and posts one GET_TOKEN.
C17_UncachedCallAlwaysPosts ==
    [][GetTokenStep
        => IF Truthy(cached) THEN ResolvedFromCache
           ELSE OneWaiterAdded /\ posted' = posted + 1]_vars

\* C17 amended: a getToken() call made while a token is cached resolves at
\* once with it, adds no waiter and posts no GET_TOKEN; a call made while
\* nothing is cached adds exactly one waiter, and posts one GET_TOKEN to the
\* iframe's content window when the iframe exists and is in the document,
\* and nothing when iframe creation failed or the iframe was removed.
C17_GetTokenCachedOrAsks ==
    [][GetTokenStep
        => IF Truthy(cached) THEN ResolvedFromCache
           ELSE /\ OneWaiterAdded
                /\ posted' = posted + (IF contentWindow = "iframeWindow" THEN 1 ELSE 0)]_vars

\* the page's first getVisitorToken() call, made before the iframe has loaded
\* and with nothing cached, is pending and has posted the only GET_TOKEN
C17_Witness ==
    /\ last.op = "getVisitorToken"
    /\ calls = 1
    /\ pcAsync = "waitLoad"
    /\ Falsy(cached)
    /\ waiters = {1}
    /\ posted = 1

\* C18: running the Bridge Client script again in a page where the first run
\* has set the initialized flag changes nothing: the iframe, the message
\* listener, the pending waiters and window.getVisitorToken stay as they
\* are; the page never has a second listener, and the flag, the function and
\* the iframe reference, once set, are never unset.
C18_SecondRunIsNoOp ==
    /\ [](bridgeListeners <= 1)
    /\ [][(last'.op = "runScript" /\ trackerInitialized) => UNCHANGED bridgeVars]_vars
    /\ [][trackerInitialized
           => /\ trackerInitialized'
              /\ getVisitorTokenDefined'
              /\ bridgeListeners' = bridgeListeners
              /\ iframe' \in {"null", "attached", "detached"}]_vars

\* the script has run again after the first run finished its async sequence
\* and the page had made a call
C18_Witness ==
    /\ last.op = "runScript"
    /\ pcAsync = "done"
    /\ calls > 0
    /\ Truthy(cached)
    /\ bridgeListeners = 1
    /\ getVisitorTokenDefined

NoRedirect == {"absent", "empty"}
ValidRedirect == "https://dest.example/path"

\* C19: the page is navigated at most once, only by the step of the async
\* sequence that follows the iframe's load event and the resolution of its
\* getToken() call, only with a token cached, and never when the redirect
\* parameter is absent or empty.
C19_RedirectOnceAfterToken ==
    /\ [][navigated' # navigated
           => /\ navigated = NoNav
              /\ last'.op = "asyncResume"
              /\ pcAsync = "waitToken"
              /\ pcAsync' = "done"
              /\ Truthy(resolved[0])
              /\ Truthy(cached)
              /\ last'.arg \notin NoRedirect]_vars
    /\ [][pcAsync = "done" => pcAsync' = "done"]_vars
    /\ [][(last'.op = "asyncResume" /\ last'.arg \in NoRedirect)
           => navigated' = NoNav]_vars
    /\ [](pcAsync \in {"idle", "failed", "waitLoad", "waitToken"} => navigated = NoNav)

\* the page has been navigated, and the async sequence is over
C19_Witness ==
    /\ navigated # NoNav
    /\ pcAsync = "done"
    /\ Truthy(cached)
    /\ fired > 0

\* C20: when the redirect parameter holds a valid URL U, the async sequence
\* navigates to U with the redirect key set to the token cached at that
\* moment, and that token is the one its getToken() call resolved with.
C20_RedirectCarriesToken ==
    [][(last'.op = "asyncResume" /\ last'.arg = ValidRedirect)
        => /\ navigated' = [url |-> ValidRedirect, key |-> cached]
           /\ Truthy(cached)
           /\ cached = resolved[0]]_vars

\* the page called getVisitorToken() before the iframe loaded, and has been
\* navigated to U with the token of the TOKEN_READY that resolved both calls
C20_Witness ==
    /\ last.op = "asyncResume"
    /\ last.arg = ValidRedirect
    /\ navigated = [url |-> ValidRedirect, key |-> resolved[0]]
    /\ resolved[1] = resolved[0]
    /\ posted = 2
    /\ fired = 1

\* the token the Token Store answers with
StoreToken == getToken(Cur)

\* C13: with working storage in the iframe and every posted message
\* eventually dispatched, every getToken() call left pending because no
\* token was cached, whether made before or after the iframe loaded, is
\* eventually resolved with the Token Store's token.
C13_EveryCallResolves ==
    \A i \in 0..MaxCalls :
        (i \in waiters) ~> (Truthy(resolved[i]) /\ resolved[i] = StoreToken)

\* C21: a redirect parameter that is not a valid URL aborts only the redirect
\* step: no exception or unhandled rejection escapes the Bridge Client, the
\* page is not navigated, and the cached token, the resolved promises and
\* window.getVisitorToken are left as they are.
C21_MalformedRedirectContained ==
    [][(last'.op = "asyncResume" /\ last'.arg = "not a url")
        => /\ bridgeUncaught' = bridgeUncaught
           /\ navigated' = NoNav
           /\ cached' = cached
           /\ resolved' = resolved
           /\ getVisitorTokenDefined']_vars

\* the attribute string holds an attribute of that name (and value)
HasAttr(options, name) == \E i \in 1..Len(options) : options[i].name = name
HasAttrValue(options, name, value) ==
    \E i \in 1..Len(options) : options[i] = Attr(name, value)

\* the string never says samesite=None without secure
Coupled(options) ==
    HasAttrValue(options, "samesite", "None") => HasAttr(options, "secure")

\* C22: for every configuration whose sameSite is 'None', secure=false
\* included, the cookie strings of the generated Token Store and Bridge
\* Client scripts contain 'secure' and 'samesite=None', and no cookie is
\* written with samesite=None and without secure.
C22_SameSiteNoneImpliesSecure ==
    /\ \A options \in {storeCookieOptions, bridgeCookieOptions} \ {NoOptions} :
          /\ Coupled(options)
          /\ sameSite = "None"
             => HasAttr(options, "secure") /\ HasAttrValue(options, "samesite", "None")
    /\ Coupled(writtenCookie.options)

\* a tracker configured with sameSite 'None' and secure false has generated
\* the Bridge Client script first: the flag was false before the call, and
\* the script's cookie string says secure and samesite=None
C22_Witness ==
    /\ last.op = "js"
    /\ last.arg = FALSE
    /\ sameSite = "None"
    /\ secure
    /\ storeCookieOptions = NoOptions
    /\ HasAttr(bridgeCookieOptions, "secure")
    /\ HasAttrValue(bridgeCookieOptions, "samesite", "None")

\* the three holders of the Token Store
holders == <<localStorage, cookieJar, memoryToken>>

\* C23: a message whose type the Token Store does not recognise, or that
\* has no type, changes none of the three holders and posts nothing to the
\* parent.
C23_UnknownTypeIgnored ==
    [][(last'.op = "message" /\ last'.arg.type \in {"OTHER", ""})
        => UNCHANGED <<holders, outbox>>]_vars

\* a message of an unknown type has been handled in a document that holds a
\* token and has answered a GET_TOKEN before
C23_Witness ==
    /\ last.op = "message"
    /\ last.arg.type = "OTHER"
    /\ Truthy(memoryToken)
    /\ Len(outbox) = 1

\* the step handled a SET_TOKEN whose token field is missing or empty
FalsySetToken ==
    /\ last'.op = "message"
    /\ last'.arg.type = "SET_TOKEN"
    /\ Falsy(last'.arg.token)

\* the step was the first initialize() of a document, it found no token and
\* generateToken() returned null
NullGenerated ==
    /\ last'.op = "initialize"
    /\ last'.gen
    /\ ~cryptoOk

\* C24: setToken with a falsy input is a no-op: a SET_TOKEN whose token is
\* missing or empty, and an initialize() whose generated token is null,
\* leave localStorage, the cookie and the in-memory holder unchanged.
C24_FalsySetTokenNoOp ==
    [][(FalsySetToken \/ NullGenerated) => UNCHANGED holders]_vars

\* a SET_TOKEN with an empty token has been handled in a document whose
\* three holders hold a token
C24_Witness ==
    /\ last.op = "message"
    /\ last.arg.type = "SET_TOKEN"
    /\ last.arg.token = EMPTY
    /\ Truthy(localStorage)
    /\ memoryToken = localStorage
    /\ CookieHolder = localStorage

\* the Token Store's holders after the step, as one value
CurAfter == [ls |-> localStorage', jar |-> cookieJar', mem |-> memoryToken',
             out |-> outbox', set |-> NULL]

\* C25: after RESET_TOKEN has been handled, the localStorage entry, the
\* cookie and the in-memory holder are all empty and getToken() returns a
\* falsy value, also when one of the clearing steps fails.
C25_ResetClearsAllHolders ==
    [][(last'.op = "message" /\ last'.arg.type = "RESET_TOKEN")
        => /\ Falsy(localStorage')
           /\ ~(\E i \in 1..Len(cookieJar') : cookieJar'[i].name = cookieName)
           /\ Falsy(memoryToken')
           /\ Falsy(getToken(CurAfter))]_vars

\* localStorage, the cookie and the in-memory holder hold no token
EmptyHolders ==
    /\ Falsy(localStorage)
    /\ CookieHolder = NULL
    /\ Falsy(memoryToken)

MatchingResponseStep ==
    /\ last'.op = "onMessage"
    /\ last'.arg.origin = IframeOrigin
    /\ last'.arg.source = contentWindow
    /\ last'.arg.data.type = "TOKEN_READY"
    /\ last'.arg.data.source = "session-tracker"
    /\ Truthy(last'.arg.data.token)

\* C27: a pending getToken() request settles only through a matching
\* response: until one arrives its waiter stays in the pending set and its
\* promise stays unresolved, whatever else happens and however long it
\* takes; and a matching response, however late, resolves every pending
\* waiter with its token.
C27_PendingUntilMatchingResponse ==
    /\ [](\A i \in waiters : resolved[i] = NULL)
    /\ [][\A i \in waiters :
             (i \notin waiters' \/ resolved'[i] # NULL)
             => MatchingResponseStep /\ resolved'[i] = last'.arg.data.token]_vars
    /\ [][MatchingResponseStep => WaitersSettled(last'.arg.data.token)]_vars

\* C28: when iframe creation fails the Bridge Client degrades: the script
\* runs to its end with this.iframe null and window.getVisitorToken defined,
\* a getToken() call adds a waiter and its promise stays pending, and a
\* message event handled by the listener raises no uncaught error.
C28_IframeFailureDegrades ==
    /\ [][(last'.op = "runScript" /\ ~trackerInitialized /\ ~domOk)
           => /\ iframe' = "null"
              /\ trackerInitialized'
              /\ bridgeListeners' = 1
              /\ getVisitorTokenDefined'
              /\ "error" \notin bridgeUncaught']_vars
    /\ [][(last'.op = "getVisitorToken" /\ iframe = "null")
           => calls' \in waiters' /\ posted' = posted]_vars
    /\ [](iframe = "null" => \A i \in DOMAIN resolved : resolved[i] = NULL)
    /\ [][(last'.op = "onMessage" /\ iframe = "null")
           => bridgeUncaught' = bridgeUncaught]_vars

\* C29: two Token Stores of one origin that share localStorage and the
\* cookie agree on getToken() and return a token, once both have initialized
\* and each has completed a reconciliation tick since the shared localStorage
\* was last cleared, whatever the interleaving of their reads and writes
TabsSettled == \A t \in Tabs : tabs[t].init /\ tabs[t].pc = "idle" /\ tabs[t].fresh
TabsRaced == tabs["A"].mem # tabs["B"].mem /\ \A t \in Tabs : Truthy(tabs[t].mem)
C29_TabsAgree ==
    TabsSettled => /\ TabGetToken("A") = TabGetToken("B")
                   /\ lsMode = "ok" => Truthy(TabGetToken("A"))
\* both documents generated their own token, the shared entry was cleared and
\* a tick of one of them restored it
C29_Witness ==
    /\ TabsSettled
    /\ TabsRaced
    /\ last.op = "tabTick"
    /\ Truthy(localStorage)
    /\ cookieMode = "blocked"

\* C30: without SET_TOKEN and RESET_TOKEN, and with storage that is only
\* cleared from outside, all TOKEN_READY messages a Token Store posts between
\* two loads of its document carry the same token
C30_OneTokenPerLifetime ==
    \A i, j \in 1..Len(outbox) : outbox[i].token = outbox[j].token

\* C31: the Bridge Client's cached token, once non-empty, never becomes empty,
\* and every change of it is made by a message the listener accepted, to that
\* message's non-empty token
AcceptedMessage(l) == l.op = "onMessage" /\ ~rejects(l.arg)
C31_CachedOnlyFromAcceptedToken ==
    [][/\ Truthy(cached) => Truthy(cached')
       /\ cached' # cached => /\ AcceptedMessage(last')
                              /\ Truthy(last'.arg.data.token)
                              /\ cached' = last'.arg.data.token]_vars
\* a second accepted message has replaced a cached token by another one
C31_Witness ==
    /\ AcceptedMessage(last)
    /\ fired = 2
    /\ cached = last.arg.data.token
    /\ firedDetail.token = cached
    /\ \E id \in DOMAIN resolved : Truthy(resolved[id]) /\ resolved[id] # cached

\* C32: a message the listener accepts while no waiter is pending overwrites
\* the cached token with its token and dispatches visitor:token-ready once
\* more, with the message as detail
C32_LateResponseProcessed ==
    [][(AcceptedMessage(last') /\ waiters = {})
         => /\ cached' = last'.arg.data.token
            /\ fired' = fired + 1
            /\ firedDetail' = last'.arg.data
            /\ waiters' = {}]_vars

\* C33: in the variant with reset/set helpers, the Bridge Client posts no
\* GET_TOKEN while a token is cached; a call of the setToken or resetToken
\* helper posts only SET_TOKEN or RESET_TOKEN and leaves the cached token as it
\* was, and getToken() keeps resolving at once with the cached token
HelperStep == last'.op \in {"helperResetToken", "helperSetToken"}
TickWrite == last'.op = "tabSetItem" /\ tabs[last'.arg].init
C34_ResetNotUndoneByTick ==
    [][(wiped /\ TickWrite) => localStorage' = localStorage]_vars

\* C35: the Token Store acts on a message of any window and origin exactly as
\* on the same message sent by its parent, and every TOKEN_READY it posts goes
\* to window.parent
AsParent(ev) == [ev EXCEPT !.origin = PageOrigin, !.source = "parentWindow"]
C35_NoSenderCheck ==
    /\ \A ev \in StoreEvents, now \in Times :
          storeListener(Cur, ev, now) = storeListener(Cur, AsParent(ev), now)
    /\ \A i \in 1..Len(outbox) : outbox[i].to = "parentWindow"
\* a GET_TOKEN of another window and origin has just been answered to the parent
C35_Witness ==
    /\ last.op = "event"
    /\ last.arg.source = "otherWindow"
    /\ last.arg.origin = EvilOrigin
    /\ last.arg.data.type = "GET_TOKEN"
    /\ Len(outbox) = 2
    /\ outbox[2].to = "parentWindow"

\* C36: the Token Store's list of posted messages grows only in a step that
\* handles GET_TOKEN, and then by one TOKEN_READY; initialization, SET_TOKEN,
\* RESET_TOKEN and reconciliation ticks post nothing
C36_NoUnsolicitedTokenReady ==
    [][(outbox' # outbox /\ last'.op # "reload")
         => /\ last'.op = "message"
            /\ last'.arg.type = "GET_TOKEN"
            /\ Len(outbox') = Len(outbox) + 1
            /\ SubSeq(outbox', 1, Len(outbox)) = outbox
            /\ outbox'[Len(outbox')].type = "TOKEN_READY"]_vars
\* a SET_TOKEN that replaced the token was handled after one answered
\* GET_TOKEN, and nothing more has been posted
C36_Witness ==
    /\ last.op = "message"
    /\ last.arg.type = "SET_TOKEN"
    /\ Truthy(last.set)
    /\ Len(outbox) = 1
    /\ outbox[1].token # memoryToken
    /\ memoryToken = last.set

\* C37: a reconciliation tick that does not find localStorage empty and the
\* in-memory holder non-empty changes none of the three holders; in particular
\* a tick that finds the localStorage entry leaves the cookie as it is
TickActs == Falsy(localStorage) /\ Truthy(memoryToken)
C37_TickActsOnlyOnEmptyStorage ==
    [][(last'.op = "tick" /\ ~TickActs) => holders' = holders]_vars
\* the timer has fired while the cookie was gone and localStorage and the
\* in-memory holder had the token: the cookie is still gone
C37_Witness ==
    /\ last.op = "tick"
    /\ lsMode = "ok"
    /\ cookieMode = "ok"
    /\ Truthy(localStorage)
    /\ memoryToken = localStorage
    /\ Falsy(getCookie(cookieJar, cookieName))

\* C38: when handleTokenReady dispatches visitor:token-ready, the cached token
\* already is the message's token and the waiters are still pending; a listener
\* of the event that calls getVisitorToken() has its promise resolved at once
\* with the new token, adds no waiter and posts no GET_TOKEN, and the waiters
\* are resolved with the token afterwards
ListenerRan == last'.op = "onMessageListening" /\ last'.set.ran
C38_CachedBeforeEventBeforeWaiters ==
    [][ListenerRan
         => /\ cached' = last'.arg.data.token
            /\ last'.set.token = last'.arg.data.token
            /\ resolved'[calls'] = last'.arg.data.token
            /\ last'.set.pending = waiters
            /\ last'.set.asked = 0
            /\ posted' = posted
            /\ waiters' = {}
            /\ \A i \in waiters : resolved'[i] = last'.arg.data.token]_vars
\* the listener ran while two waiters were pending, and all three promises
\* have the message's token
C38_Witness ==
    /\ last.op = "onMessageListening"
    /\ last.set.ran
    /\ Cardinality(last.set.pending) = 2
    /\ last.set.token = cached
    /\ \A i \in last.set.pending : resolved[i] = cached

\* C39: in the variant that removes cookies, neither the removal string of a
\* generated Token Store script nor a removal cookie written with it says
\* samesite=None without secure, whichever of iframe() and js() ran first
C39_RemovalStringCoupled ==
    /\ Coupled(storeRemoveOptions)
    /\ last.op = "removeCookie" => Coupled(writtenCookie.options)

\* C40: the attributes of a generated cookie string are, in this order, path,
\* domain, secure, samesite and expires, with domain present exactly when a
\* non-empty domain is configured and secure exactly when the tracker's secure
\* flag is true; the flag changes only when sameSite is 'None', so with
\* 'Strict' or 'Lax' and secure=false the string has no secure
AttrNames(options) == [i \in 1..Len(options) |-> options[i].name]
KeepIf(cond, name) == IF cond THEN <<name>> ELSE <<>>
ExpectedNames ==
    <<"path">> \o KeepIf(domain # "", "domain") \o KeepIf(secure, "secure")
        \o <<"samesite", "expires">>
WellComposed(options) ==
    /\ AttrNames(options) = ExpectedNames
    /\ HasAttrValue(options, "path", "/")
    /\ HasAttrValue(options, "samesite", sameSite)
    /\ domain # "" => HasAttrValue(options, "domain", domain)
C40_CookieStringComposition ==
    /\ [](\A options \in {storeCookieOptions, bridgeCookieOptions} \ {NoOptions} :
              WellComposed(options))
    /\ [][secure' # secure => (sameSite = "None" /\ secure')]_vars
\* a tracker configured with sameSite 'Strict', secure false and a domain has
\* generated both scripts: their cookie strings are path, domain, samesite,
\* expires
C40_Witness ==
    /\ sameSite = "Strict"
    /\ ~secure
    /\ domain = "example.com"
    /\ storeCookieOptions # NoOptions
    /\ AttrNames(storeCookieOptions) = <<"path", "domain", "samesite", "expires">>
    /\ bridgeCookieOptions = storeCookieOptions

====
